---- MODULE Spec2Model ----
(***************************************************************************)
(* A model of MAC2Host: find_device.py (subnet scanner: calculate_network, *)
(* ping_host, normalize_mac, get_mac, scan_network) and announce_device.py *)
(* (announce_mdns_hostname).                                               *)
(*                                                                         *)
(* Python strings are sequences of one-character strings, so that          *)
(* split/int/str/join/re.sub/lower are computed as the code computes them. *)
(* Python's None is the sentinel <<"None">>, which is no such sequence.    *)
(***************************************************************************)
EXTENDS Integers, Sequences, FiniteSets, TLC

VARIABLES
    \* calculate_network called on its own
    ip, netmask, target_ips, net_pc,
    \* normalize_mac called on its own
    mac, mac_variant, mac_out, mac_out2, mac_variant_out, mac_pc,
    \* scan_network: what the interface reports, the --mac argument, the
    \* futures, the loops' positions and the value returned
    iface_addr, iface_netmask, target_mac, scan_pc, submitted, futures,
    ping_outcome, collected, active_devices, resolved, result, printed,
    \* the executor of scan_network with its futures counted, not listed
    n_targets, n_submitted, n_queued, n_running, n_done, n_collected, pool_pc,
    \* announce_device.py
    ip_address, local_ip, ann_pc, zeroconf, registered, pending, calls, log, slept

netVars == <<ip, netmask, target_ips, net_pc>>
macVars == <<mac, mac_variant, mac_out, mac_out2, mac_variant_out, mac_pc>>
scanVars == <<iface_addr, iface_netmask, target_mac, scan_pc, submitted, futures,
              ping_outcome, collected, active_devices, resolved, result, printed>>
poolVars == <<n_targets, n_submitted, n_queued, n_running, n_done, n_collected, pool_pc>>
annVars == <<ip_address, local_ip, ann_pc, zeroconf, registered, pending, calls, log, slept>>
vars == <<netVars, macVars, scanVars, poolVars, annVars>>

None == <<"None">>

\* Python truthiness of an optional string: `not s` is true of None and of "".
Falsy(s) == s = None \/ s = << >>

Min(a, b) == IF a <= b THEN a ELSE b

(***************************************************************************)
(* String primitives                                                       *)
(***************************************************************************)
DigitChar == <<"0", "1", "2", "3", "4", "5", "6", "7", "8", "9">>

DigitVal(c) == CHOOSE d \in 0..9 : DigitChar[d + 1] = c

IsDigit(c) == \E d \in 0..9 : DigitChar[d + 1] = c

\* str(n) for n >= 0
RECURSIVE Str(_)
Str(n) == IF n < 10 THEN <<DigitChar[n + 1]>>
          ELSE Str(n \div 10) \o <<DigitChar[(n % 10) + 1]>>

\* int(tok) succeeds on a non-empty run of decimal digits and raises ValueError
\* otherwise (signs, blanks and underscores are not among the modelled inputs).
IsInt(tok) == Len(tok) > 0 /\ \A i \in 1..Len(tok) : IsDigit(tok[i])

RECURSIVE IntOf(_)
IntOf(tok) == IF Len(tok) = 0 THEN 0
              ELSE 10 * IntOf(SubSeq(tok, 1, Len(tok) - 1)) + DigitVal(tok[Len(tok)])

\* s.split('.'): always at least one (possibly empty) token
RECURSIVE SplitDot(_)
SplitDot(s) ==
    IF \A i \in 1..Len(s) : s[i] # "." THEN <<s>>
    ELSE LET k == CHOOSE i \in 1..Len(s) :
                      s[i] = "." /\ \A j \in 1..(i - 1) : s[j] # "."
         IN  <<SubSeq(s, 1, k - 1)>> \o SplitDot(SubSeq(s, k + 1, Len(s)))

\* '.'.join(parts)
RECURSIVE JoinDot(_)
JoinDot(parts) ==
    IF Len(parts) = 0 THEN << >>
    ELSE IF Len(parts) = 1 THEN parts[1]
    ELSE parts[1] \o <<".">> \o JoinDot(Tail(parts))

\* '.'.join(map(str, nums))
Dotted(nums) == JoinDot([i \in 1..Len(nums) |-> Str(nums[i])])

(***************************************************************************)
(* Bitwise operations on non-negative integers                             *)
(***************************************************************************)
RECURSIVE BitAnd(_, _)
BitAnd(a, b) == IF a = 0 \/ b = 0 THEN 0
                ELSE (a % 2) * (b % 2) + 2 * BitAnd(a \div 2, b \div 2)

RECURSIVE BitOr(_, _)
BitOr(a, b) == IF a = 0 THEN b
               ELSE IF b = 0 THEN a
               ELSE (IF a % 2 = 1 \/ b % 2 = 1 THEN 1 ELSE 0)
                    + 2 * BitOr(a \div 2, b \div 2)

\* ~mask & 0xff: Python's ~m is -m - 1, and & 0xff keeps the low eight bits
InvertByte(m) == (0 - m - 1) % 256

(***************************************************************************)
(* calculate_network                                                       *)
(***************************************************************************)
\* list(map(int, s.split('.')))
IntParts(s) == LET toks == SplitDot(s) IN [i \in 1..Len(toks) |-> IntOf(toks[i])]

\* int() raises ValueError on some token of ip or netmask
CalcRaises(addr, mask) ==
    \/ \E i \in 1..Len(SplitDot(addr)) : ~IsInt(SplitDot(addr)[i])
    \/ \E i \in 1..Len(SplitDot(mask)) : ~IsInt(SplitDot(mask)[i])

\* zip() stops at the shorter list
network_parts(addr, mask) ==
    LET ip_parts == IntParts(addr)
        mask_parts == IntParts(mask)
    IN  [i \in 1..Min(Len(ip_parts), Len(mask_parts)) |->
            BitAnd(ip_parts[i], mask_parts[i])]

broadcast_parts(addr, mask) ==
    LET ip_parts == IntParts(addr)
        mask_parts == IntParts(mask)
    IN  [i \in 1..Min(Len(ip_parts), Len(mask_parts)) |->
            BitOr(ip_parts[i], InvertByte(mask_parts[i]))]

\* a plausible slip: range(lo, hi), the end left out
RangeSeqExclusiveEnd(lo, hi) ==
    IF hi - 1 < lo THEN << >> ELSE [i \in 1..(hi - lo) |-> lo + i - 1]

\* range(lo, hi + 1) as a sequence
RangeSeq(lo, hi) == IF hi < lo THEN << >> ELSE [i \in 1..(hi - lo + 1) |-> lo + i - 1]

\* the list calculate_network returns when int() raises nowhere
calculate_network(addr, mask) ==
    LET net == network_parts(addr, mask)
        bc == broadcast_parts(addr, mask)
        start_last == net[Len(net)] + 1
        end_last == bc[Len(bc)] - 1
        base_network == Dotted(SubSeq(net, 1, Min(3, Len(net))))
        lasts == RangeSeq(start_last, end_last)
    IN  [i \in 1..Len(lasts) |-> base_network \o <<".">> \o Str(lasts[i])]

(***************************************************************************)
(* calculate_network called on its own: the inputs, then the call          *)
(***************************************************************************)
MaxHostBits == 16

Pow2(n) == 2 ^ n

\* the netmask that leaves h host bits, as four octets
MaskOfHostBits(h) ==
    [i \in 1..4 |->
        LET low == 8 * (4 - i)
            hb == IF h <= low THEN 0 ELSE IF h >= low + 8 THEN 8 ELSE h - low
        IN  256 - Pow2(hb)]

IpSamples == { <<10, 0, 0, 5>>, <<192, 168, 1, 10>>, <<172, 16, 254, 1>>,
               <<10, 0, 0, 0>>, <<192, 168, 1, 255>>, <<10, 1, 2, 128>> }

\* inputs that are no dotted quad: a non-numeric token, an empty token,
\* three tokens, five tokens
MalformedSamples == { <<"1", "0", ".", "0", ".", "x", ".", "5">>,
                      <<"1", "0", ".", ".", "0", ".", "5">>,
                      <<"1", "0", ".", "0", ".", "5">>,
                      <<"1", "0", ".", "0", ".", "0", ".", "5", ".", "9">> }

NetInputsIp == {Dotted(a) : a \in IpSamples} \cup MalformedSamples

NetInputsMask == {Dotted(MaskOfHostBits(h)) : h \in 0..MaxHostBits}
                     \cup {<<"2", "5", "5", ".", "2", "5", "5", ".", "2", "4", "8">>,
                           <<"a", "b", "c">>}

MacIdle ==
    /\ mac = None /\ mac_variant = None /\ mac_out = None
    /\ mac_out2 = None /\ mac_variant_out = None /\ mac_pc = "idle"

ScanIdle ==
    /\ iface_addr = None /\ iface_netmask = None /\ target_mac = None
    /\ scan_pc = "idle" /\ submitted = 0 /\ futures = << >> /\ ping_outcome = << >> /\ collected = 0
    /\ active_devices = << >> /\ resolved = << >> /\ result = << >>
    /\ printed = << >>

PoolIdle ==
    /\ n_targets = 0 /\ n_submitted = 0 /\ n_queued = 0 /\ n_running = 0
    /\ n_done = 0 /\ n_collected = 0 /\ pool_pc = "idle"

AnnIdle ==
    /\ ip_address = None /\ local_ip = None /\ ann_pc = "idle"
    /\ zeroconf = "none" /\ registered = FALSE /\ pending = "none"
    /\ calls = << >> /\ log = << >> /\ slept = 0

InitNet ==
    /\ ip \in NetInputsIp
    /\ netmask \in NetInputsMask
    /\ target_ips = << >>
    /\ net_pc = "call"
    /\ MacIdle
    /\ ScanIdle
    /\ PoolIdle
    /\ AnnIdle

NetIdle == ip = None /\ netmask = None /\ target_ips = << >> /\ net_pc = "idle"

\* calculate_network returns its list
CalcNetwork ==
    /\ net_pc = "call"
    /\ ~CalcRaises(ip, netmask)
    /\ target_ips' = calculate_network(ip, netmask)
    /\ net_pc' = "done"
    /\ UNCHANGED <<poolVars, annVars, ip, netmask, macVars, scanVars>>

\* int() raises ValueError inside calculate_network, which does not catch it
CalcNetworkRaise ==
    /\ net_pc = "call"
    /\ CalcRaises(ip, netmask)
    /\ net_pc' = "raised"
    /\ UNCHANGED <<poolVars, annVars, ip, netmask, target_ips, macVars, scanVars>>

NextNet == CalcNetwork \/ CalcNetworkRaise

SpecNet == InitNet /\ [][NextNet]_vars

(***************************************************************************)
(* Claims about calculate_network                                          *)
(***************************************************************************)
\* a dotted quad: exactly four integer tokens, each 0..255
IsQuad(s) ==
    /\ Len(SplitDot(s)) = 4
    /\ \A i \in 1..4 : IsInt(SplitDot(s)[i]) /\ IntOf(SplitDot(s)[i]) <= 255

\* signed distance x - base of two quads that share a /8 neighbourhood
Offset(x, base) ==
    (x[1] - base[1]) * 16777216 + (x[2] - base[2]) * 65536
        + (x[3] - base[3]) * 256 + (x[4] - base[4])

NetworkAddr(addr, mask) ==
    [i \in 1..4 |-> BitAnd(IntParts(addr)[i], IntParts(mask)[i])]

BroadcastAddr(addr, mask) ==
    [i \in 1..4 |-> BitOr(IntParts(addr)[i], 255 - IntParts(mask)[i])]

\* C1: for every valid (address, netmask) pair the targets are exactly the
\* addresses strictly between the network address and the broadcast address
\* (each target lies strictly between, and there are as many targets as
\* addresses between), in strictly ascending order of the final octet.
C1_TargetsAreAllHosts ==
    (net_pc = "done" /\ IsQuad(ip) /\ IsQuad(netmask)) =>
        LET N == NetworkAddr(ip, netmask)
            B == BroadcastAddr(ip, netmask)
            between == IF Offset(B, N) > 1 THEN Offset(B, N) - 1 ELSE 0
        IN  /\ \A i \in 1..Len(target_ips) :
                /\ IsQuad(target_ips[i])
                /\ Offset(IntParts(target_ips[i]), N) > 0
                /\ Offset(B, IntParts(target_ips[i])) > 0
            /\ Len(target_ips) = between
            /\ \A i \in 1..(Len(target_ips) - 1) :
                IntParts(target_ips[i])[4] < IntParts(target_ips[i + 1])[4]

Ip_10_0_0_5 == <<"1", "0", ".", "0", ".", "0", ".", "5">>
Ip_10_0_0_6 == <<"1", "0", ".", "0", ".", "0", ".", "6">>
Mask_30 == <<"2", "5", "5", ".", "2", "5", "5", ".", "2", "5", "5", ".", "2", "5", "2">>

\* C2 as stated: 10.0.0.5 with netmask 255.255.255.252 yields exactly the
\* single address 10.0.0.5.
C2_SlashThirtySingleTarget ==
    (net_pc = "done" /\ ip = Ip_10_0_0_5 /\ netmask = Mask_30) =>
        target_ips = <<Ip_10_0_0_5>>

\* C2 as amended: 10.0.0.5 with netmask 255.255.255.252 yields exactly the two
\* addresses 10.0.0.5 and 10.0.0.6, in that order.
C2_SlashThirtyTwoTargets ==
    (net_pc = "done" /\ ip = Ip_10_0_0_5 /\ netmask = Mask_30) =>
        target_ips = <<Ip_10_0_0_5, Ip_10_0_0_6>>

C2_Witness == net_pc = "done" /\ ip = Ip_10_0_0_5 /\ netmask = Mask_30

(***************************************************************************)
(* normalize_mac                                                           *)
(***************************************************************************)
HexLower == <<"0", "1", "2", "3", "4", "5", "6", "7", "8", "9",
              "a", "b", "c", "d", "e", "f">>

HexUpper == <<"0", "1", "2", "3", "4", "5", "6", "7", "8", "9",
              "A", "B", "C", "D", "E", "F">>

\* the character class [0-9a-fA-F]
IsHex(c) == \E k \in 1..16 : HexLower[k] = c \/ HexUpper[k] = c

\* str.lower() on one character of the modelled alphabet
LowerChar(c) ==
    IF \E k \in 11..16 : HexUpper[k] = c
    THEN HexLower[CHOOSE k \in 11..16 : HexUpper[k] = c]
    ELSE IF c = "G" THEN "g" ELSE IF c = "Z" THEN "z" ELSE c

Lower(s) == [i \in 1..Len(s) |-> LowerChar(s[i])]

\* re.sub(r'[^0-9a-fA-F]', '', s)
RECURSIVE StripNonHex(_)
StripNonHex(s) ==
    IF Len(s) = 0 THEN << >>
    ELSE IF IsHex(Head(s)) THEN <<Head(s)>> \o StripNonHex(Tail(s))
    ELSE StripNonHex(Tail(s))

\* ':'.join([m[i:i+2] for i in range(0, 12, 2)])
JoinPairs(m) ==
    SubSeq(m, 1, 2) \o <<":">> \o SubSeq(m, 3, 4) \o <<":">> \o SubSeq(m, 5, 6)
        \o <<":">> \o SubSeq(m, 7, 8) \o <<":">> \o SubSeq(m, 9, 10)
        \o <<":">> \o SubSeq(m, 11, 12)

\* a plausible slip: the .lower() call left out
normalize_mac_no_lower(m) ==
    IF Falsy(m) THEN None
    ELSE LET hex == StripNonHex(m)
         IN  IF Len(hex) # 12 THEN None ELSE JoinPairs(hex)

RECURSIVE StripSeparators(_)
StripSeparators(s) ==
    IF Len(s) = 0 THEN << >>
    ELSE IF Head(s) \in {":", "-"} THEN StripSeparators(Tail(s))
    ELSE <<Head(s)>> \o StripSeparators(Tail(s))

\* a plausible slip: only ':' and '-' are stripped, not every non-hex character
normalize_mac_separators_only(m) ==
    IF Falsy(m) THEN None
    ELSE LET hex == Lower(StripSeparators(m))
         IN  IF Len(hex) # 12 THEN None ELSE JoinPairs(hex)

normalize_mac(m) ==
    IF Falsy(m) THEN None
    ELSE LET hex == Lower(StripNonHex(m))
         IN  IF Len(hex) # 12 THEN None ELSE JoinPairs(hex)

(***************************************************************************)
(* normalize_mac called on its own: a loose spelling of a run of hex       *)
(* digits and a second spelling of the same digits, each normalized, and   *)
(* the first result normalized again                                       *)
(***************************************************************************)
MaxOffset == 3
LenSlack == 1

DigitSource == HexLower \o <<"0", "a", "1", "b", "2", "c", "3", "d", "4", "e", "5", "f",
                             "9", "9", "0", "0">>

DigitRuns ==
    { SubSeq(DigitSource, off, off + n - 1) :
        off \in 1..MaxOffset, n \in {0, 1} \cup ((12 - LenSlack)..(12 + LenSlack)) }

CaseStyles == {"lower", "upper", "mixed"}
SepStyles == {"none", "colon", "dash", "dot", "junk"}

UpperChar(c) == IF \E k \in 11..16 : HexLower[k] = c
                THEN HexUpper[CHOOSE k \in 11..16 : HexLower[k] = c]
                ELSE c

Cased(digits, style) ==
    [i \in 1..Len(digits) |->
        IF style = "upper" \/ (style = "mixed" /\ i % 2 = 1)
        THEN UpperChar(digits[i]) ELSE digits[i]]

\* the separator written after digit i of n
SepAfter(i, n, style) ==
    IF i = n \/ style = "none" THEN << >>
    ELSE IF style = "colon" THEN (IF i % 2 = 0 THEN <<":">> ELSE << >>)
    ELSE IF style = "dash" THEN (IF i % 2 = 0 THEN <<"-">> ELSE << >>)
    ELSE IF style = "dot" THEN (IF i % 4 = 0 THEN <<".">> ELSE << >>)
    ELSE (IF i % 3 = 0 THEN <<" ", "G">> ELSE IF i % 3 = 1 THEN <<"z">> ELSE << >>)

RECURSIVE Spelled(_, _, _)
Spelled(digits, i, style) ==
    IF i > Len(digits) THEN << >>
    ELSE <<digits[i]>> \o SepAfter(i, Len(digits), style) \o Spelled(digits, i + 1, style)

Render(digits, case, sep) == Spelled(Cased(digits, case), 1, sep)

InitMac ==
    /\ \E d \in DigitRuns, c1 \in CaseStyles, s1 \in SepStyles,
          c2 \in CaseStyles, s2 \in SepStyles :
            /\ mac = Render(d, c1, s1)
            /\ mac_variant = Render(d, c2, s2)
    /\ mac_out = None /\ mac_out2 = None /\ mac_variant_out = None
    /\ mac_pc = "call"
    /\ NetIdle
    /\ ScanIdle
    /\ PoolIdle
    /\ AnnIdle

\* normalize_mac(mac) and normalize_mac(mac_variant)
Normalize ==
    /\ mac_pc = "call"
    /\ mac_out' = normalize_mac(mac)
    /\ mac_variant_out' = normalize_mac(mac_variant)
    /\ mac_pc' = "normalized"
    /\ UNCHANGED <<poolVars, annVars, mac, mac_variant, mac_out2, netVars, scanVars>>

\* normalize_mac applied to its own result
Renormalize ==
    /\ mac_pc = "normalized"
    /\ mac_out2' = normalize_mac(mac_out)
    /\ mac_pc' = "renormalized"
    /\ UNCHANGED <<poolVars, annVars, mac, mac_variant, mac_out, mac_variant_out, netVars, scanVars>>

NextMac == Normalize \/ Renormalize

SpecMac == InitMac /\ [][NextMac]_vars

(***************************************************************************)
(* Claims about normalize_mac                                              *)
(***************************************************************************)
\* six pairs of lowercase hex digits joined by colons
IsCanonical(s) ==
    /\ s # None
    /\ Len(s) = 17
    /\ \A i \in 1..17 :
        IF i % 3 = 0 THEN s[i] = ":" ELSE \E k \in 1..16 : HexLower[k] = s[i]

HexCount(s) == Cardinality({i \in 1..Len(s) : IsHex(s[i])})

\* C8: normalize_mac is idempotent: a canonical input comes back unchanged,
\* normalizing a successful result again changes nothing, and two spellings of
\* the same digits that differ only in separators or letter case get the same
\* result, which is canonical when there is one.
C8_NormalizeIdempotent ==
    /\ mac_pc \in {"normalized", "renormalized"} =>
        /\ mac_variant_out = mac_out
        /\ (mac_out # None => IsCanonical(mac_out))
        /\ (IsCanonical(mac) => mac_out = mac)
    /\ (mac_pc = "renormalized" /\ mac_out # None) => mac_out2 = mac_out

C8_Witness ==
    /\ mac_pc = "renormalized"
    /\ mac_out # None
    /\ mac # mac_variant
    /\ ~IsCanonical(mac)
    /\ IsCanonical(mac_variant)

\* C9: normalize_mac returns None for every input that does not hold exactly
\* 12 hexadecimal digits, and a canonical address for every input that does.
C9_TwelveDigitsOrNone ==
    mac_pc \in {"normalized", "renormalized"} =>
        /\ (HexCount(mac) # 12 => mac_out = None)
        /\ (HexCount(mac) = 12 => IsCanonical(mac_out))

C9_WitnessRejected ==
    mac_pc = "normalized" /\ HexCount(mac) = 13 /\ Len(mac) > 13 /\ mac_out = None

(***************************************************************************)
(* scan_network                                                            *)
(***************************************************************************)
max_workers == 100

\* at most MaxUp probes find their host up, at most MaxFaults probes end in
\* an error rather than an exit status
MaxUp == 3
MaxFaults == 1

\* what one probe's environment does: ping exits 0, ping exits non-zero (no
\* answer within the timeout among the causes), or starting ping raises
\* (no such executable, permission denied). ping_outcome[i] records it for
\* the i-th target ("pending" before, "task_error" for a future that raised).
PingOutcomes == {"exit0", "exit_nonzero", "oserror"}

\* a plausible slip: the except branch answering True
ping_host_except_true(outcome) == outcome = "exit0" \/ outcome = "oserror"

\* ping_host: subprocess.call(...) == 0, and False from the bare except
ping_host(outcome) == outcome = "exit0"

\* a future is "queued", "running", or done holding ping_host's value
\* ("True", "False") or an exception ("raised")
Done(f) == f \in {"True", "False", "raised"}

NumRunning == Cardinality({i \in 1..Len(futures) : futures[i] = "running"})
NumUp == Cardinality({i \in 1..Len(ping_outcome) : ping_outcome[i] = "exit0"})
NumFaults ==
    Cardinality({i \in 1..Len(ping_outcome) : ping_outcome[i] \in {"oserror", "task_error"}})

\* a plausible slip: the loop variable not rebound from the futures dict, so
\* that the interface's own address is what gets appended
FutureIpStale(k) == ip

\* futures[future]: the address the k-th future was submitted with
FutureIp(k) == target_ips[k]

\* tuple(map(int, x.split('.'))) < tuple(map(int, y.split('.')))
RECURSIVE TupleLess(_, _)
TupleLess(a, b) ==
    IF Len(b) = 0 THEN FALSE
    ELSE IF Len(a) = 0 THEN TRUE
    ELSE IF Head(a) # Head(b) THEN Head(a) < Head(b)
    ELSE TupleLess(Tail(a), Tail(b))

KeyLess(x, y) == TupleLess(IntParts(x), IntParts(y))

\* insert x after the elements whose key is not greater (sorted is stable)
RECURSIVE InsertByKey(_, _)
InsertByKey(x, seq) ==
    IF Len(seq) = 0 THEN <<x>>
    ELSE IF KeyLess(x, Head(seq)) THEN <<x>> \o seq
    ELSE <<Head(seq)>> \o InsertByKey(x, Tail(seq))

\* sorted(seq, key=lambda x: tuple(map(int, x.split('.'))))
RECURSIVE SortedByKey(_)
SortedByKey(seq) ==
    IF Len(seq) = 0 THEN << >>
    ELSE InsertByKey(seq[Len(seq)], SortedByKey(SubSeq(seq, 1, Len(seq) - 1)))

\* a plausible slip: the resolved address compared as the table spells it
MacMatchesRaw(found_mac, wanted) == ~Falsy(found_mac) /\ found_mac = wanted

\* found_mac and normalize_mac(found_mac) == target_mac
MacMatches(found_mac, wanted) ==
    ~Falsy(found_mac) /\ normalize_mac(found_mac) = wanted

\* what the interface reports: an address and a netmask, each possibly absent
IfaceSamples ==
    { <<Dotted(<<10, 0, 0, 5>>), Dotted(<<255, 255, 255, 252>>)>>,
      <<Dotted(<<192, 168, 1, 10>>), Dotted(<<255, 255, 255, 248>>)>>,
      <<Dotted(<<10, 0, 0, 5>>), Dotted(<<255, 255, 255, 254>>)>>,
      <<None, None>>,
      <<Dotted(<<10, 0, 0, 5>>), None>>,
      <<Dotted(<<10, 0, 0, 5>>), << >> >>,
      <<Dotted(<<10, 0, 0, 5, 9>>), Dotted(<<255, 255, 255, 252>>)>>,
      <<Dotted(<<10, 0, 5>>), Dotted(<<255, 255, 252>>)>>,
      <<None, Dotted(<<255, 255, 255, 0>>)>>,
      <<<<"1", "0", ".", "0", ".", "x", ".", "5">>, Dotted(<<255, 255, 255, 252>>)>>,
      <<Dotted(<<10, 0, 0, 5>>), <<"/", "3", "0">> >> }

MacDigitsA == SubSeq(DigitSource, 5, 16)
MacDigitsB == SubSeq(DigitSource, 17, 28)

\* the --mac argument: absent, empty, two spellings of one address, not an address
TargetMacSamples ==
    { None, << >>, Render(MacDigitsA, "lower", "colon"),
      Render(MacDigitsA, "upper", "dash"), <<"a", "a", ":", "b", "b">> }

\* what get_mac can return for one address: None (no entry, the all-zero
\* entry, an unreadable table), or the fourth column as the table spells it
ArpAnswers ==
    { None, Render(MacDigitsA, "lower", "colon"), Render(MacDigitsA, "upper", "dash"),
      Render(MacDigitsB, "lower", "colon"), <<"(", "i", "n", "c", ")">> }

InitScan ==
    /\ \E c \in IfaceSamples : iface_addr = c[1] /\ iface_netmask = c[2]
    /\ target_mac \in TargetMacSamples
    /\ scan_pc = "start"
    /\ submitted = 0 /\ futures = << >> /\ ping_outcome = << >> /\ collected = 0
    /\ active_devices = << >> /\ resolved = << >> /\ result = << >>
    /\ printed = << >>
    /\ NetIdle
    /\ MacIdle
    /\ PoolIdle
    /\ AnnIdle

\* lines 88-91: no address or no netmask: print and return []
ScanNoConfig ==
    /\ scan_pc = "start"
    /\ Falsy(iface_addr) \/ Falsy(iface_netmask)
    /\ ip' = iface_addr /\ netmask' = iface_netmask
    /\ printed' = Append(printed, "no IPv4 address or invalid configuration")
    /\ result' = << >>
    /\ scan_pc' = "done"
    /\ UNCHANGED <<poolVars, annVars, target_ips, net_pc, macVars, iface_addr, iface_netmask, target_mac,
                   submitted, futures, ping_outcome, collected, active_devices, resolved>>

\* lines 88-94: the targets are computed
ScanCalcTargets ==
    /\ scan_pc = "start"
    /\ ~Falsy(iface_addr) /\ ~Falsy(iface_netmask)
    /\ ~CalcRaises(iface_addr, iface_netmask)
    /\ ip' = iface_addr /\ netmask' = iface_netmask
    /\ target_ips' = calculate_network(iface_addr, iface_netmask)
    /\ scan_pc' = "submit"
    /\ UNCHANGED <<poolVars, annVars, net_pc, macVars, iface_addr, iface_netmask, target_mac, submitted,
                   futures, ping_outcome, collected, active_devices, resolved, result, printed>>

\* line 93: calculate_network raises ValueError, which nothing catches
ScanCalcRaise ==
    /\ scan_pc = "start"
    /\ ~Falsy(iface_addr) /\ ~Falsy(iface_netmask)
    /\ CalcRaises(iface_addr, iface_netmask)
    /\ ip' = iface_addr /\ netmask' = iface_netmask
    /\ scan_pc' = "raised"
    /\ UNCHANGED <<poolVars, annVars, target_ips, net_pc, macVars, iface_addr, iface_netmask, target_mac,
                   submitted, futures, ping_outcome, collected, active_devices, resolved, result,
                   printed>>

\* line 97: executor.submit(ping_host, ip) for the next target
Submit ==
    /\ scan_pc = "submit"
    /\ submitted < Len(target_ips)
    /\ submitted' = submitted + 1
    /\ futures' = Append(futures, "queued")
    /\ ping_outcome' = Append(ping_outcome, "pending")
    /\ UNCHANGED <<poolVars, annVars, netVars, macVars, iface_addr, iface_netmask, target_mac, scan_pc,
                   collected, active_devices, resolved, result, printed>>

\* line 97 done: every target is submitted, the result loop begins
SubmitDone ==
    /\ scan_pc = "submit"
    /\ submitted = Len(target_ips)
    /\ scan_pc' = "collect"
    /\ UNCHANGED <<poolVars, annVars, netVars, macVars, iface_addr, iface_netmask, target_mac, submitted,
                   futures, ping_outcome, collected, active_devices, resolved, result, printed>>

\* a pool thread takes the oldest queued work item; the pool has at most
\* max_workers threads
WorkerStart ==
    /\ NumRunning < max_workers
    /\ \E i \in 1..Len(futures) :
        /\ futures[i] = "queued"
        /\ \A j \in 1..(i - 1) : futures[j] # "queued"
        /\ futures' = [futures EXCEPT ![i] = "running"]
    /\ UNCHANGED <<poolVars, annVars, netVars, macVars, iface_addr, iface_netmask, target_mac, scan_pc,
                   submitted, ping_outcome, collected, active_devices, resolved, result, printed>>

\* a running ping_host returns, in any order among the running ones
WorkerFinish ==
    /\ \E i \in 1..Len(futures), o \in PingOutcomes :
        /\ futures[i] = "running"
        /\ o = "exit0" => NumUp < MaxUp
        /\ o = "oserror" => NumFaults < MaxFaults
        /\ ping_outcome' = [ping_outcome EXCEPT ![i] = o]
        /\ futures' = [futures EXCEPT ![i] = IF ping_host(o) THEN "True" ELSE "False"]
    /\ UNCHANGED <<poolVars, annVars, netVars, macVars, iface_addr, iface_netmask, target_mac, scan_pc,
                   submitted, collected, active_devices, resolved, result, printed>>

\* a work item ends with an exception set on its future (ping_host itself
\* catches everything; this is the case lines 100-104 provide for)
WorkerRaise ==
    /\ \E i \in 1..Len(futures) :
        /\ futures[i] = "running"
        /\ NumFaults < MaxFaults
        /\ ping_outcome' = [ping_outcome EXCEPT ![i] = "task_error"]
        /\ futures' = [futures EXCEPT ![i] = "raised"]
    /\ UNCHANGED <<poolVars, annVars, netVars, macVars, iface_addr, iface_netmask, target_mac, scan_pc,
                   submitted, collected, active_devices, resolved, result, printed>>

\* lines 98-104: future.result() of the next future, in submission order
Collect ==
    /\ scan_pc = "collect"
    /\ collected < Len(futures)
    /\ Done(futures[collected + 1])
    /\ collected' = collected + 1
    /\ active_devices' = IF futures[collected + 1] = "True"
                         THEN Append(active_devices, FutureIp(collected + 1))
                         ELSE active_devices
    /\ UNCHANGED <<poolVars, annVars, netVars, macVars, iface_addr, iface_netmask, target_mac, scan_pc,
                   submitted, futures, ping_outcome, resolved, result, printed>>

\* line 104 -> 106: the with block ends (shutdown(wait=True)): every work
\* item is done
PoolShutdown ==
    /\ scan_pc = "collect"
    /\ collected = Len(futures)
    /\ \A i \in 1..Len(futures) : Done(futures[i])
    /\ scan_pc' = "branch"
    /\ UNCHANGED <<poolVars, annVars, netVars, macVars, iface_addr, iface_netmask, target_mac, submitted,
                   futures, ping_outcome, collected, active_devices, resolved, result, printed>>

\* line 120: no --mac: the sorted live list is returned
ReturnSorted ==
    /\ scan_pc = "branch"
    /\ Falsy(target_mac)
    /\ result' = SortedByKey(active_devices)
    /\ scan_pc' = "done"
    /\ UNCHANGED <<poolVars, annVars, netVars, macVars, iface_addr, iface_netmask, target_mac, submitted,
                   futures, ping_outcome, collected, active_devices, resolved, printed>>

\* lines 107-110: --mac does not normalize
ReturnInvalidMac ==
    /\ scan_pc = "branch"
    /\ ~Falsy(target_mac)
    /\ normalize_mac(target_mac) = None
    /\ printed' = Append(printed, "Invalid MAC address format")
    /\ result' = << >>
    /\ scan_pc' = "done"
    /\ UNCHANGED <<poolVars, annVars, netVars, macVars, iface_addr, iface_netmask, target_mac, submitted,
                   futures, ping_outcome, collected, active_devices, resolved>>

\* lines 107-113: --mac normalizes; the search loop begins
StartMacSearch ==
    /\ scan_pc = "branch"
    /\ ~Falsy(target_mac)
    /\ normalize_mac(target_mac) # None
    /\ scan_pc' = "search"
    /\ UNCHANGED <<poolVars, annVars, netVars, macVars, iface_addr, iface_netmask, target_mac, submitted,
                   futures, ping_outcome, collected, active_devices, resolved, result, printed>>

\* lines 114-117: get_mac for the next live address; return it on a match
MacLookup ==
    /\ scan_pc = "search"
    /\ Len(resolved) < Len(active_devices)
    /\ \E found_mac \in ArpAnswers :
        /\ resolved' = Append(resolved, found_mac)
        /\ IF MacMatches(found_mac, normalize_mac(target_mac))
           THEN /\ result' = <<active_devices[Len(resolved) + 1]>>
                /\ scan_pc' = "done"
           ELSE UNCHANGED <<poolVars, annVars, result, scan_pc>>
    /\ UNCHANGED <<poolVars, annVars, netVars, macVars, iface_addr, iface_netmask, target_mac, submitted,
                   futures, ping_outcome, collected, active_devices, printed>>

\* line 118: the loop ends without a match
ReturnNoMatch ==
    /\ scan_pc = "search"
    /\ Len(resolved) = Len(active_devices)
    /\ result' = << >>
    /\ scan_pc' = "done"
    /\ UNCHANGED <<poolVars, annVars, netVars, macVars, iface_addr, iface_netmask, target_mac, submitted,
                   futures, ping_outcome, collected, active_devices, resolved, printed>>

NextScan ==
    \/ ScanNoConfig \/ ScanCalcTargets \/ ScanCalcRaise
    \/ Submit \/ SubmitDone \/ WorkerStart \/ WorkerFinish \/ WorkerRaise
    \/ Collect \/ PoolShutdown
    \/ ReturnSorted \/ ReturnInvalidMac \/ StartMacSearch \/ MacLookup \/ ReturnNoMatch

SpecScan == InitScan /\ [][NextScan]_vars

(***************************************************************************)
(* Claims about scan_network                                               *)
(***************************************************************************)
Range(seq) == {seq[i] : i \in 1..Len(seq)}

NoDuplicates(seq) == \A i, j \in 1..Len(seq) : i # j => seq[i] # seq[j]

\* the addresses whose probe returned true
LiveSet == {target_ips[i] : i \in {j \in 1..Len(futures) : futures[j] = "True"}}

\* the positions of the live list whose resolved hardware address, normalized,
\* equals the normalized --mac argument
Hits ==
    {j \in 1..Len(resolved) :
        /\ resolved[j] # None
        /\ normalize_mac(target_mac) # None
        /\ normalize_mac(resolved[j]) = normalize_mac(target_mac)}

\* C3: with a target hardware address, the scan returns at most one address,
\* a member of the live set; the live addresses are tried in ascending order
\* and the one returned is the first whose normalized resolved hardware
\* address equals the normalized target (nothing after it is resolved); the
\* result is empty when no live address matches, every one having been tried.
C3_FirstMatchingLive ==
    (scan_pc = "done" /\ ~Falsy(target_mac)) =>
        /\ Len(result) <= 1
        /\ Range(result) \subseteq LiveSet
        /\ \A i \in 1..(Len(active_devices) - 1) :
            KeyLess(active_devices[i], active_devices[i + 1])
        /\ IF Hits = {}
           THEN /\ result = << >>
                /\ (normalize_mac(target_mac) # None /\ Len(target_ips) > 0)
                       => Len(resolved) = Len(active_devices)
           ELSE /\ \A j \in Hits : j = Len(resolved)
                /\ result = <<active_devices[Len(resolved)]>>

C3_Witness ==
    /\ scan_pc = "done"
    /\ ~Falsy(target_mac)
    /\ Len(active_devices) = 3
    /\ Len(resolved) = 2
    /\ resolved[1] # None
    /\ resolved[2] # normalize_mac(target_mac)
    /\ result = <<active_devices[2]>>

\* C4: whatever the probes' outcomes and order of completion, the scan
\* returns no address outside the derived target sequence and none twice.
C4_ResultWithinTargets ==
    /\ Range(active_devices) \subseteq Range(target_ips)
    /\ NoDuplicates(active_devices)
    /\ scan_pc = "done" =>
        /\ Range(result) \subseteq Range(target_ips)
        /\ NoDuplicates(result)

C4_Witness ==
    /\ scan_pc = "done"
    /\ Falsy(target_mac)
    /\ Len(target_ips) = 6
    /\ Len(result) = 3
    /\ futures[1] # "True"

\* C5: a probe's failure never aborts the scan: once a probe is submitted the
\* scan does not raise; after the result loop an address whose probe ended in
\* an error (ping could not be started, the task raised) or in a non-zero
\* exit is not live, every address whose probe succeeded is live, and without
\* a target hardware address exactly those are returned.
C5_ProbeFailureIsNegative ==
    /\ scan_pc = "raised" => submitted = 0
    /\ scan_pc \in {"branch", "search", "done"} =>
        \A i \in 1..Len(ping_outcome) :
            /\ ping_outcome[i] = "exit0" => target_ips[i] \in Range(active_devices)
            /\ ping_outcome[i] # "exit0" => target_ips[i] \notin Range(active_devices)
    /\ (scan_pc = "done" /\ Falsy(target_mac)) =>
        Range(result) = {target_ips[i] : i \in {j \in 1..Len(ping_outcome) :
                                                    ping_outcome[j] = "exit0"}}

C5_Witness ==
    /\ scan_pc = "done"
    /\ Falsy(target_mac)
    /\ \E i, j, k \in 1..Len(ping_outcome) :
        /\ i < j /\ j < k
        /\ ping_outcome[i] = "exit0"
        /\ ping_outcome[j] = "oserror"
        /\ ping_outcome[k] = "exit0"
        /\ target_ips[i] \in Range(result)
        /\ target_ips[k] \in Range(result)

\* C7: when the interface's address or netmask is absent, or is not four
\* octets, no probe is ever submitted and nothing is returned as live.
C7_NoProbeOnBadConfig ==
    (\/ Falsy(iface_addr) \/ Falsy(iface_netmask)
     \/ ~IsQuad(iface_addr) \/ ~IsQuad(iface_netmask)) =>
        /\ submitted = 0
        /\ futures = << >>
        /\ result = << >>

(***************************************************************************)
(* The executor of scan_network, lines 96-104, on subnets with more        *)
(* targets than threads. The futures are counted by state instead of       *)
(* listed: n_queued + n_running + n_done = n_submitted. Which future is    *)
(* done is not kept, so the result loop's wait for the next future in      *)
(* order is the weaker "some future not yet collected is done"; every      *)
(* behaviour of the code is a behaviour of this model.                     *)
(***************************************************************************)
MaxTargets == 102

\* a plausible slip: a thread started for every submitted work item
CanStartWorkerUnbounded(running) == TRUE

\* ThreadPoolExecutor(max_workers=100): a work item runs on one of at most
\* max_workers threads
CanStartWorker(running) == running < max_workers

InitPool ==
    /\ n_targets \in {2, max_workers, MaxTargets}
    /\ n_submitted = 0 /\ n_queued = 0 /\ n_running = 0 /\ n_done = 0
    /\ n_collected = 0
    /\ pool_pc = "submit"
    /\ NetIdle /\ MacIdle /\ ScanIdle /\ AnnIdle

\* line 97: executor.submit for the next target
PoolSubmit ==
    /\ pool_pc = "submit"
    /\ n_submitted < n_targets
    /\ n_submitted' = n_submitted + 1
    /\ n_queued' = n_queued + 1
    /\ UNCHANGED <<netVars, macVars, scanVars, annVars, n_targets, n_running, n_done,
                   n_collected, pool_pc>>

\* line 97 done: the result loop begins
PoolSubmitDone ==
    /\ pool_pc = "submit"
    /\ n_submitted = n_targets
    /\ pool_pc' = "collect"
    /\ UNCHANGED <<netVars, macVars, scanVars, annVars, n_targets, n_submitted, n_queued,
                   n_running, n_done, n_collected>>

\* a pool thread takes a queued work item
PoolWorkerStart ==
    /\ n_queued > 0
    /\ CanStartWorker(n_running)
    /\ n_queued' = n_queued - 1
    /\ n_running' = n_running + 1
    /\ UNCHANGED <<netVars, macVars, scanVars, annVars, n_targets, n_submitted, n_done,
                   n_collected, pool_pc>>

\* a running ping_host ends (returning or raising)
PoolWorkerFinish ==
    /\ n_running > 0
    /\ n_running' = n_running - 1
    /\ n_done' = n_done + 1
    /\ UNCHANGED <<netVars, macVars, scanVars, annVars, n_targets, n_submitted, n_queued,
                   n_collected, pool_pc>>

\* lines 98-104: future.result() returns for the next future
PoolCollect ==
    /\ pool_pc = "collect"
    /\ n_collected < n_targets
    /\ n_done > n_collected
    /\ n_collected' = n_collected + 1
    /\ UNCHANGED <<netVars, macVars, scanVars, annVars, n_targets, n_submitted, n_queued,
                   n_running, n_done, pool_pc>>

\* the loop is over and the with block ends; scan_network goes on to return
PoolReturn ==
    /\ pool_pc = "collect"
    /\ n_collected = n_targets
    /\ pool_pc' = "returned"
    /\ UNCHANGED <<netVars, macVars, scanVars, annVars, n_targets, n_submitted, n_queued,
                   n_running, n_done, n_collected>>

NextPool ==
    \/ PoolSubmit \/ PoolSubmitDone \/ PoolWorkerStart \/ PoolWorkerFinish
    \/ PoolCollect \/ PoolReturn

SpecPool == InitPool /\ [][NextPool]_vars

\* C10: never more than 100 probes in flight, and the scan returns only when
\* every submitted probe has completed and every result has been taken.
C10_BoundedAndComplete ==
    /\ n_running <= 100
    /\ pool_pc = "returned" =>
        /\ n_submitted = n_targets
        /\ n_queued = 0 /\ n_running = 0
        /\ n_done = n_targets
        /\ n_collected = n_targets

\* the cap binds: 100 probes in flight while others wait
C10_Witness == n_running = 100 /\ n_queued > 0 /\ pool_pc = "submit"

(***************************************************************************)
(* announce_device.py: announce_mdns_hostname as __main__ calls it          *)
(***************************************************************************)
MaxSleeps == 4

\* socket.inet_aton accepts the address (here: one to four decimal tokens,
\* none above 255) or raises socket.error
InetAtonOk(s) ==
    LET toks == SplitDot(s)
    IN  /\ Len(toks) <= 4
        /\ \A i \in 1..Len(toks) : IsInt(toks[i]) /\ IntOf(toks[i]) <= 255

\* --ip is a required argument, so ip_address is never None here
IpArgSamples == { Dotted(<<192, 168, 0, 100>>), Dotted(<<10, 0, 0, 5>>),
                  <<"n", "o", "t", "-", "a", "n", "-", "i", "p">>,
                  Dotted(<<300, 1, 1, 1>>) }

\* get_interface_ip: the interface's address, or None on any exception
LocalIpSamples == { None, Dotted(<<192, 168, 0, 2>>) }

InitAnnounce ==
    /\ ip_address \in IpArgSamples
    /\ local_ip \in LocalIpSamples
    /\ ann_pc = "validate"
    /\ zeroconf = "none" /\ registered = FALSE /\ pending = "none"
    /\ calls = << >> /\ log = << >> /\ slept = 0
    /\ NetIdle /\ MacIdle /\ ScanIdle /\ PoolIdle

AnnOthers == UNCHANGED <<netVars, macVars, scanVars, poolVars, ip_address, local_ip>>

\* lines 37-42: inet_aton raises; logged, return
AnnInvalidIp ==
    /\ ann_pc = "validate"
    /\ ~InetAtonOk(ip_address)
    /\ log' = Append(log, "error: Invalid IP address")
    /\ ann_pc' = "exited"
    /\ UNCHANGED <<zeroconf, registered, pending, calls, slept>>
    /\ AnnOthers

\* lines 45-48: no local address; logged, return
AnnNoLocalIp ==
    /\ ann_pc = "validate"
    /\ InetAtonOk(ip_address)
    /\ Falsy(local_ip)
    /\ log' = Append(log, "error: Failed to get local IP address")
    /\ ann_pc' = "exited"
    /\ UNCHANGED <<zeroconf, registered, pending, calls, slept>>
    /\ AnnOthers

\* lines 50-65: ServiceInfo built, Zeroconf(interfaces=[local_ip]) created
AnnCreateZeroconf ==
    /\ ann_pc = "validate"
    /\ InetAtonOk(ip_address)
    /\ ~Falsy(local_ip)
    /\ zeroconf' = "open"
    /\ calls' = Append(calls, "Zeroconf")
    /\ ann_pc' = "register"
    /\ UNCHANGED <<registered, pending, log, slept>>
    /\ AnnOthers

\* line 65: Zeroconf() raises (the socket cannot be bound); no handle exists
\* and the exception leaves the function, outside the try
AnnCreateRaises ==
    /\ ann_pc = "validate"
    /\ InetAtonOk(ip_address)
    /\ ~Falsy(local_ip)
    /\ pending' = "Exception"
    /\ ann_pc' = "main"
    /\ UNCHANGED <<zeroconf, registered, calls, log, slept>>
    /\ AnnOthers

\* lines 68-70: register_service returns
AnnRegister ==
    /\ ann_pc = "register"
    /\ registered' = TRUE
    /\ calls' = Append(calls, "register_service")
    /\ log' = Append(log, "info: Hostname announced")
    /\ ann_pc' = "loop"
    /\ UNCHANGED <<zeroconf, pending, slept>>
    /\ AnnOthers

\* lines 69, 74-75: register_service raises; except Exception logs it
AnnRegisterRaises ==
    /\ ann_pc = "register"
    /\ calls' = Append(calls, "register_service")
    /\ log' = Append(log, "error: Error during announcement")
    /\ ann_pc' = "unregister"
    /\ UNCHANGED <<zeroconf, registered, pending, slept>>
    /\ AnnOthers

\* lines 71-72: one more time.sleep(5)
AnnSleep ==
    /\ ann_pc = "loop"
    /\ slept < MaxSleeps
    /\ slept' = slept + 1
    /\ UNCHANGED <<ann_pc, zeroconf, registered, pending, calls, log>>
    /\ AnnOthers

\* KeyboardInterrupt inside the try (while registering or sleeping): except
\* Exception does not catch it, the finally block runs with it pending
AnnInterrupt ==
    /\ ann_pc \in {"register", "loop"}
    /\ pending' = "KeyboardInterrupt"
    /\ ann_pc' = "unregister"
    /\ UNCHANGED <<zeroconf, registered, calls, log, slept>>
    /\ AnnOthers

\* lines 74-75: an Exception inside the loop; logged
AnnLoopError ==
    /\ ann_pc = "loop"
    /\ log' = Append(log, "error: Error during announcement")
    /\ ann_pc' = "unregister"
    /\ UNCHANGED <<zeroconf, registered, pending, calls, slept>>
    /\ AnnOthers

\* lines 77-78: unregister_service returns
AnnUnregister ==
    /\ ann_pc = "unregister"
    /\ log' = Append(log, "info: Unregistering hostname")
    /\ calls' = Append(calls, "unregister_service")
    /\ registered' = FALSE
    /\ ann_pc' = "close"
    /\ UNCHANGED <<zeroconf, pending, slept>>
    /\ AnnOthers

\* line 78: unregister_service raises, or a KeyboardInterrupt arrives while
\* it runs: the rest of the finally block is skipped and the new exception
\* leaves the function
AnnUnregisterRaises ==
    /\ ann_pc = "unregister"
    /\ log' = Append(log, "info: Unregistering hostname")
    /\ calls' = Append(calls, "unregister_service")
    /\ pending' \in {"Exception", "KeyboardInterrupt"}
    /\ ann_pc' = "main"
    /\ UNCHANGED <<zeroconf, registered, slept>>
    /\ AnnOthers

\* lines 79-80: zeroconf.close()
AnnClose ==
    /\ ann_pc = "close"
    /\ calls' = Append(calls, "close")
    /\ zeroconf' = "closed"
    /\ log' = Append(log, "info: Hostname announcement stopped")
    /\ ann_pc' = "main"
    /\ UNCHANGED <<registered, pending, slept>>
    /\ AnnOthers

\* lines 91-98: back in __main__: KeyboardInterrupt is caught and logged,
\* any other exception ends the process with a traceback
AnnMainExit ==
    /\ ann_pc = "main"
    /\ log' = IF pending = "KeyboardInterrupt" THEN Append(log, "info: Stopped by user")
              ELSE IF pending = "Exception" THEN Append(log, "traceback")
              ELSE log
    /\ ann_pc' = "exited"
    /\ UNCHANGED <<zeroconf, registered, pending, calls, slept>>
    /\ AnnOthers

NextAnnounce ==
    \/ AnnInvalidIp \/ AnnNoLocalIp \/ AnnCreateZeroconf \/ AnnCreateRaises
    \/ AnnRegister \/ AnnRegisterRaises \/ AnnSleep \/ AnnInterrupt \/ AnnLoopError
    \/ AnnUnregister \/ AnnUnregisterRaises \/ AnnClose \/ AnnMainExit

SpecAnnounce == InitAnnounce /\ [][NextAnnounce]_vars

Position(seq, x) == CHOOSE i \in 1..Len(seq) : seq[i] = x

\* C6: once the handle exists, however the run loop is left, the function
\* exits with the advertisement unregistered and then the handle closed: the
\* handle is never closed before unregister_service was called, and is never
\* still open at exit.
C6_UnregisterThenClose ==
    /\ zeroconf = "closed" =>
        /\ "unregister_service" \in Range(calls)
        /\ Position(calls, "unregister_service") < Position(calls, "close")
    /\ (ann_pc = "exited" /\ zeroconf # "none") =>
        /\ zeroconf = "closed"
        /\ ~registered

====
